---- MODULE Spec2Model ----
(***************************************************************************)
(* Continuum worker: the task pipeline (claim / screen / execute / finalise *)
(* / recover) of N workers over one TASKS table, and each worker's sandbox *)
(* manager (persistent container, idle reaper, shutdown cleanup).          *)
(***************************************************************************)
EXTENDS Integers, FiniteSets, Sequences, TLC

\* ------------------------------------------------------------------ bounds
NumWorkers == 2
NumTasks == 2
MaxPriority == 2
MaxContainers == 2
MaxNotify == 1
MaxEvents == 2
MaxPolling == 12

\* ------------------------------------------------------- program constants
maxRetries == 3
NoTask == 0
NoContainer == 0
NULL == 0

Workers == 1..NumWorkers
Tasks == 1..NumTasks
Priorities == 0..MaxPriority
ContainerIDs == 1..MaxContainers

\* model.TaskStatus values the pipeline writes
TaskPending == "pending"
TaskRunning == "running"
TaskCompleted == "completed"
TaskFailed == "failed"
TaskMalicious == "malicious"

\* Script texts stored in CODES: one that exits 0, one that exits non-zero,
\* one that the screener flags.
Scripts == {"exit0", "exit1", "pwn"}

\* Priority bands (MIN_PRIORITY, MAX_PRIORITY) a worker may be configured with.
Bands == {<<0, 0>>, <<1, MaxPriority>>, <<0, 1>>, <<MaxPriority, MaxPriority>>}

VARIABLES
    TASKS,              \* the TASKS table: id -> row
    rowLock,            \* id -> worker whose open transaction holds FOR UPDATE on the row
    pc,                 \* worker -> position in main / ProcessTasks
    task,               \* worker -> id of the task ProcessTasks holds (task.ID)
    attempt,            \* worker -> retry loop index i
    executeCalls,       \* worker -> calls of ExecuteTaskInDocker made for the task it last claimed
    execResult,         \* worker -> (output, execErr) of the last ExecuteTaskInDocker
    ctxDone,            \* worker -> the signal context is cancelled
    storeFault,         \* the store fails the statements the workers send
    notifyChan,         \* worker -> notifications queued in listener.Notify
    MIN_PRIORITY,       \* worker -> env MIN_PRIORITY
    MAX_PRIORITY,       \* worker -> env MAX_PRIORITY
    POLLING_INTERVAL,   \* worker -> env POLLING_INTERVAL
    ticker,             \* worker -> seconds between ticks of main's ticker (0: not created)
    workerstats,        \* worker -> StatusResponse counters
    activeContainerID,  \* worker -> recorded container id
    lastUsedAt,         \* worker -> "recent" / "idle": now - lastUsedAt <= / > timeout
    containers,         \* worker -> ids created by the worker and not removed
    runningC,           \* worker -> ids among them whose State.Running holds
    containerID,        \* worker -> the id ExecuteTaskInDocker runs the script in
    reaperID,           \* worker -> the id the reaper has taken and not yet removed
    created,            \* worker -> number of containers created so far
    sanitiser,          \* worker -> "running" / "done": the sanitising exec of the last reuse
    sandboxFault,       \* the runtime fails the inspect / create / exec calls of ExecuteTaskInDocker
    events              \* environment events (signals, crashes, timeouts, runtime and store faults) so far

dbVars == <<TASKS, rowLock>>
envVars == <<MIN_PRIORITY, MAX_PRIORITY, POLLING_INTERVAL>>
loopVars == <<pc, task, attempt, executeCalls, execResult, ctxDone, storeFault, notifyChan, envVars, ticker,
             workerstats>>
sandboxVars == <<activeContainerID, lastUsedAt, containers, runningC, containerID, reaperID, created,
                 sanitiser, sandboxFault>>
vars == <<TASKS, rowLock, pc, task, attempt, executeCalls, execResult, ctxDone, storeFault, notifyChan,
          MIN_PRIORITY, MAX_PRIORITY, POLLING_INTERVAL, ticker, workerstats, activeContainerID, lastUsedAt,
          containers, runningC, containerID, reaperID, created, sanitiser, sandboxFault, events>>

\* ----------------------------------------------------------------- helpers
Min(a, b) == IF a <= b THEN a ELSE b

\* The worker process is running (neither returned from main nor killed).
ProcessAlive(w) == pc[w] \notin {"exited", "crashed"}

\* pg_notify from task_change_trigger: one message per changed row to every
\* listening worker; the channel is bounded.
Notified(ch, n) ==
    [w \in Workers |-> IF ProcessAlive(w) /\ n > 0 /\ ch[w] < MaxNotify
                       THEN Min(ch[w] + n, MaxNotify)
                       ELSE ch[w]]

\* UpdateStats with the success and failure deltas added to each other's counter.
UpdateStats_SwappedCounters(s, processed, success, failed, databaseFailures, current) ==
    [TasksProcessed |-> s.TasksProcessed + processed,
     TasksSuccessful |-> s.TasksSuccessful + failed,
     TasksFailed |-> s.TasksFailed + success,
     DatabaseFailures |-> s.DatabaseFailures + databaseFailures,
     CurrentTask |-> current]

\* UpdateStats without the addition to TasksProcessed.
UpdateStats_DropsProcessed(s, processed, success, failed, databaseFailures, current) ==
    [TasksProcessed |-> s.TasksProcessed,
     TasksSuccessful |-> s.TasksSuccessful + success,
     TasksFailed |-> s.TasksFailed + failed,
     DatabaseFailures |-> s.DatabaseFailures + databaseFailures,
     CurrentTask |-> current]

\* WorkerStats.UpdateStats(id, processed, success, failed, databaseFailures, current)
UpdateStats(s, processed, success, failed, databaseFailures, current) ==
    [TasksProcessed |-> s.TasksProcessed + processed,
     TasksSuccessful |-> s.TasksSuccessful + success,
     TasksFailed |-> s.TasksFailed + failed,
     DatabaseFailures |-> s.DatabaseFailures + databaseFailures,
     CurrentTask |-> current]

\* containerization.AnalyzeCode: the screener's verdict on a script text.
AnalyzeCode(code) == code = "pwn"

\* SELECT code FROM CODES WHERE id = task.Code returns a row: the task's code
\* reference resolves.
CodeFound(code) == code # "dangling"

\* The exit code python returns for a script text.
ExitCode(code) == IF code = "exit0" THEN 0 ELSE 1

\* Go's a | b on non-negative ints: bitwise OR.
RECURSIVE BitOr(_, _)
BitOr(a, b) ==
    IF a = 0 THEN b
    ELSE IF b = 0 THEN a
    ELSE (IF a % 2 = 1 \/ b % 2 = 1 THEN 1 ELSE 0) + 2 * BitOr(a \div 2, b \div 2)

\* The ticker's period as a floor of five seconds: the larger of p and 5.
TickerSeconds_Max(p) == IF p >= 5 THEN p ELSE 5

\* main: the ticker's period in seconds, time.Duration(POLLING_INTERVAL | 5) * time.Second.
TickerSeconds(p) == BitOr(p, 5)

\* ---------------------------------------------------------------- initial
\* The state after the processes in `started` have read their environment and
\* are about to create the ticker and run main's initial check, with the
\* given rows in TASKS, the given environment of each worker (its band, and
\* POLLING_INTERVAL = polling[w]) and `queued` notifications received since
\* listener.Listen; the other processes are not running; `crashes`
\* environment events are counted as spent.
InitEnv(started, rows, bands, polling, crashes, queued) ==
    /\ TASKS = rows
    /\ rowLock = [t \in Tasks |-> NULL]
    /\ pc = [w \in Workers |-> IF w \in started THEN "start" ELSE "crashed"]
    /\ task = [w \in Workers |-> NoTask]
    /\ attempt = [w \in Workers |-> 0]
    /\ executeCalls = [w \in Workers |-> 0]
    /\ execResult = [w \in Workers |-> [output |-> "", execErr |-> "nil"]]
    /\ ctxDone = [w \in Workers |-> FALSE]
    /\ storeFault = FALSE
    /\ notifyChan = [w \in Workers |-> IF w \in started THEN queued ELSE 0]
    /\ MIN_PRIORITY = [w \in Workers |-> bands[w][1]]
    /\ MAX_PRIORITY = [w \in Workers |-> bands[w][2]]
    /\ POLLING_INTERVAL = polling
    /\ ticker = [w \in Workers |-> 0]
    /\ workerstats = [w \in Workers |-> [TasksProcessed |-> 0, TasksSuccessful |-> 0,
                                         TasksFailed |-> 0, DatabaseFailures |-> 0,
                                         CurrentTask |-> NoTask]]
    /\ activeContainerID = [w \in Workers |-> NoContainer]
    /\ lastUsedAt = [w \in Workers |-> "recent"]
    /\ containers = [w \in Workers |-> {}]
    /\ runningC = [w \in Workers |-> {}]
    /\ containerID = [w \in Workers |-> NoContainer]
    /\ reaperID = [w \in Workers |-> NoContainer]
    /\ created = [w \in Workers |-> 0]
    /\ sanitiser = [w \in Workers |-> "done"]
    /\ sandboxFault = FALSE
    /\ events = crashes

\* The same with POLLING_INTERVAL unset in every worker's environment
\* (strconv.Atoi("") gives 0).
InitState(started, rows, bands, crashes, queued) ==
    InitEnv(started, rows, bands, [w \in Workers |-> 0], crashes, queued)

\* The same with nothing queued in listener.Notify.
InitWith(started, rows, bands, crashes) == InitState(started, rows, bands, crashes, 0)

\* Freshly inserted rows: pending, nothing else set.
PendingRows(priorities, scripts) ==
    [Tasks -> [status : {TaskPending}, priority : priorities, code : scripts,
               worker_id : {NULL}, locked_at : {"null"}, started : {FALSE},
               finished : {FALSE}, last_error : {"null"}, output : {"null"}]]

\* Every worker started with the default band (0, 0); rows of default priority.
Init ==
    \E rows \in PendingRows({0}, Scripts) :
        InitWith(Workers, rows, [w \in Workers |-> <<0, 0>>], 0)

\* ------------------------------------------------------------ the pipeline
\* The recovery UPDATE without its age condition: every running row matches.
StaleRows_AnyRunning == {t \in Tasks : TASKS[t].status = TaskRunning}

\* Rows RecoverTasks' UPDATE matches: running and locked for over an hour.
StaleRows == {t \in Tasks : TASKS[t].status = TaskRunning /\ TASKS[t].locked_at = "stale"}

\* The recovery UPDATE without STATUS in its SET list.
RecoverTasks_KeepsStatus ==
    [t \in Tasks |-> IF t \in StaleRows
                     THEN [TASKS[t] EXCEPT !.finished = TRUE,
                                           !.last_error = "Timeout/Worker Crash (1h limit)"]
                     ELSE TASKS[t]]

\* The table after RecoverTasks' UPDATE.
RecoverTasks ==
    [t \in Tasks |-> IF t \in StaleRows
                     THEN [TASKS[t] EXCEPT !.status = TaskFailed, !.finished = TRUE,
                                           !.last_error = "Timeout/Worker Crash (1h limit)"]
                     ELSE TASKS[t]]

\* res.RowsAffected() of RecoverTasks' UPDATE: the count it reports.
RecoveredCount == Cardinality(StaleRows)

\* main binds its arguments (MIN_PRIORITY, MAX_PRIORITY), in this order, to
\* ProcessTasks' parameters (maxPriority, minPriority).
ProcessTasksParams(w) == [maxPriority |-> MIN_PRIORITY[w], minPriority |-> MAX_PRIORITY[w]]

\* tx.QueryRow(query, minPriority, maxPriority): the values of $1 and $2.
QueryArgs(w) == <<ProcessTasksParams(w).minPriority, ProcessTasksParams(w).maxPriority>>

\* The WHERE clause with strict comparisons on the priority bounds.
QueryMatches_StrictBounds(t, a1, a2) ==
    /\ TASKS[t].status = TaskPending
    /\ TASKS[t].locked_at = "null"
    /\ (a1 = 0 \/ TASKS[t].priority > a1)
    /\ (a2 = 0 \/ TASKS[t].priority < a2)

\* The WHERE clause of the claim query.
QueryMatches(t, a1, a2) ==
    /\ TASKS[t].status = TaskPending
    /\ TASKS[t].locked_at = "null"
    /\ (a1 = 0 \/ TASKS[t].priority >= a1)
    /\ (a2 = 0 \/ TASKS[t].priority <= a2)

\* The claim query without its row lock: no row is skipped.
SkipLocked_NoRowLock(t) == TRUE

\* FOR UPDATE SKIP LOCKED: rows another open transaction has locked are skipped.
SkipLocked(t) == rowLock[t] = NULL

\* Rows the claim query of worker w can return.
Eligible(w) == {t \in Tasks : QueryMatches(t, QueryArgs(w)[1], QueryArgs(w)[2]) /\ SkipLocked(t)}

\* ORDER BY priority ASC LIMIT 1: a row of least priority value (ties in any order).
Selected(w) == {t \in Eligible(w) : \A u \in Eligible(w) : TASKS[t].priority <= TASKS[u].priority}

\* ProcessTasks as a drain loop: instead of returning it queries again.
Return_Drain(w) ==
    /\ pc' = [pc EXCEPT ![w] = "process"]
    /\ task' = [task EXCEPT ![w] = NoTask]
    /\ attempt' = [attempt EXCEPT ![w] = 0]
    /\ execResult' = [execResult EXCEPT ![w] = [output |-> "", execErr |-> "nil"]]

\* ProcessTasks returns: its locals are gone, main is back in its select.
Return(w) ==
    /\ pc' = [pc EXCEPT ![w] = "wait"]
    /\ task' = [task EXCEPT ![w] = NoTask]
    /\ attempt' = [attempt EXCEPT ![w] = 0]
    /\ execResult' = [execResult EXCEPT ![w] = [output |-> "", execErr |-> "nil"]]

\* RecoverTasks(db, workerstats) called by worker w: the UPDATE, or its error
\* counted as a database failure; `ch` is listener.Notify of every worker
\* before the call.
CallRecoverTasks(w, ch) ==
    IF storeFault
    THEN /\ TASKS' = TASKS
         /\ notifyChan' = ch
         /\ workerstats' = [workerstats EXCEPT ![w] = UpdateStats(@, 0, 0, 0, 1, NoTask)]
    ELSE /\ TASKS' = RecoverTasks
         /\ notifyChan' = Notified(ch, Cardinality(StaleRows))
         /\ UNCHANGED workerstats

\* main: time.NewTicker and the initial check's RecoverTasks.
Start(w) ==
    /\ pc[w] = "start"
    /\ ticker' = [ticker EXCEPT ![w] = TickerSeconds(POLLING_INTERVAL[w])]
    /\ CallRecoverTasks(w, notifyChan)
    /\ pc' = [pc EXCEPT ![w] = "process"]
    /\ UNCHANGED <<rowLock, task, attempt, executeCalls, execResult, ctxDone, storeFault, envVars,
                   sandboxVars, events>>

\* main's select, case <-ticker.C: ProcessTasks alone.
TickerWake(w) ==
    /\ pc[w] = "wait"
    /\ pc' = [pc EXCEPT ![w] = "process"]
    /\ UNCHANGED <<dbVars, task, attempt, executeCalls, execResult, ctxDone, storeFault, notifyChan,
                   envVars, ticker, workerstats, sandboxVars, events>>

\* main's select, case <-listener.Notify: RecoverTasks, then ProcessTasks.
NotifyWake(w) ==
    /\ pc[w] = "wait"
    /\ notifyChan[w] > 0
    /\ CallRecoverTasks(w, [notifyChan EXCEPT ![w] = @ - 1])
    /\ pc' = [pc EXCEPT ![w] = "process"]
    /\ UNCHANGED <<rowLock, task, attempt, executeCalls, execResult, ctxDone, storeFault, envVars,
                   ticker, sandboxVars, events>>

\* ProcessTasks: db.Begin and the claim query; an error of either, and
\* sql.ErrNoRows, return.
ClaimSelect(w) ==
    /\ pc[w] = "process"
    /\ \/ /\ storeFault \/ Selected(w) = {}
          /\ Return(w)
          /\ UNCHANGED rowLock
       \/ /\ ~storeFault
          /\ \E t \in Selected(w) :
                /\ rowLock' = [rowLock EXCEPT ![t] = w]
                /\ task' = [task EXCEPT ![w] = t]
                /\ pc' = [pc EXCEPT ![w] = "tx"]
                /\ UNCHANGED <<attempt, execResult>>
    /\ UNCHANGED <<TASKS, executeCalls, ctxDone, storeFault, notifyChan, envVars, ticker,
                   workerstats, sandboxVars, events>>

\* The claim without the screening branch: every selected row is set running.
ClaimCommit_NoScreening(w) ==
    /\ pc[w] = "tx"
    /\ LET t == task[w] IN
       /\ rowLock' = [rowLock EXCEPT ![t] = NULL]
       /\ notifyChan' = Notified(notifyChan, 1)
       /\ TASKS' = [TASKS EXCEPT ![t].status = TaskRunning, ![t].worker_id = w,
                                 ![t].locked_at = "fresh", ![t].started = TRUE]
       /\ workerstats' = [workerstats EXCEPT ![w] = UpdateStats(@, 1, 0, 0, 0, t)]
       /\ pc' = [pc EXCEPT ![w] = "exec"]
       /\ attempt' = [attempt EXCEPT ![w] = 0]
       /\ executeCalls' = [executeCalls EXCEPT ![w] = 0]
       /\ UNCHANGED <<task, execResult>>
    /\ UNCHANGED <<ctxDone, storeFault, envVars, ticker, sandboxVars, events>>

\* ProcessTasks: code lookup, screening, the UPDATE and tx.Commit. While the
\* store is failing, the statement that meets the error is the lookup or,
\* the lookup having been answered, the UPDATE or the commit; either way the
\* deferred tx.Rollback releases the row.
ClaimCommit(w) ==
    /\ pc[w] = "tx"
    /\ LET t == task[w] IN
       /\ rowLock' = [rowLock EXCEPT ![t] = NULL]
       /\ \/ \* the code lookup returns an error (store error, or no such row in CODES)
             /\ storeFault \/ ~CodeFound(TASKS[t].code)
             /\ Return(w)
             /\ UNCHANGED <<TASKS, notifyChan, workerstats, executeCalls>>
          \/ \* updateErr or tx.Commit's error: counted as a database failure
             /\ storeFault /\ CodeFound(TASKS[t].code)
             /\ workerstats' = [workerstats EXCEPT ![w] = UpdateStats(@, 0, 0, 0, 1, NoTask)]
             /\ Return(w)
             /\ UNCHANGED <<TASKS, notifyChan, executeCalls>>
          \/ /\ ~storeFault /\ CodeFound(TASKS[t].code)
             /\ notifyChan' = Notified(notifyChan, 1)
             /\ IF AnalyzeCode(TASKS[t].code)
                THEN /\ TASKS' = [TASKS EXCEPT ![t].status = TaskMalicious]
                     /\ Return(w)
                     /\ UNCHANGED <<workerstats, executeCalls>>
                ELSE /\ TASKS' = [TASKS EXCEPT ![t].status = TaskRunning, ![t].worker_id = w,
                                               ![t].locked_at = "fresh", ![t].started = TRUE]
                     /\ workerstats' = [workerstats EXCEPT
                                          ![w] = UpdateStats(@, 1, 0, 0, 0, t)]
                     /\ pc' = [pc EXCEPT ![w] = "exec"]
                     /\ attempt' = [attempt EXCEPT ![w] = 0]
                     /\ executeCalls' = [executeCalls EXCEPT ![w] = 0]
                     /\ UNCHANGED <<task, execResult>>
    /\ UNCHANGED <<ctxDone, storeFault, envVars, ticker, sandboxVars, events>>

\* The retry loop without its break: the loop goes on after a successful attempt.
AfterExecute_NoBreak(w, out, err) ==
    /\ pc' = [pc EXCEPT ![w] = "backoff"]
    /\ execResult' = [execResult EXCEPT ![w] = [output |-> out, execErr |-> err]]
    /\ UNCHANGED <<task, attempt>>

\* ProcessTasks' retry loop after ExecuteTaskInDocker returned (output, execErr).
AfterExecute(w, out, err) ==
    IF err = "nil"
    THEN /\ pc' = [pc EXCEPT ![w] = "finalize"]
         /\ execResult' = [execResult EXCEPT ![w] = [output |-> out, execErr |-> err]]
         /\ UNCHANGED <<task, attempt>>
    ELSE IF ctxDone[w]
    THEN Return(w)
    ELSE /\ pc' = [pc EXCEPT ![w] = "backoff"]
         /\ execResult' = [execResult EXCEPT ![w] = [output |-> out, execErr |-> err]]
         /\ UNCHANGED <<task, attempt>>

\* The backoff as a plain sleep: cancellation is not looked at.
Backoff_IgnoreCancel(w) ==
    /\ pc[w] = "backoff"
    /\ attempt' = [attempt EXCEPT ![w] = @ + 1]
    /\ pc' = [pc EXCEPT ![w] = IF attempt[w] + 1 < maxRetries THEN "exec" ELSE "finalize"]
    /\ UNCHANGED <<dbVars, task, execResult, executeCalls, ctxDone, storeFault, notifyChan, envVars,
                   ticker, workerstats, sandboxVars, events>>

\* The retry loop's select: ctx.Done returns, the 2 s timer goes to the next attempt.
Backoff(w) ==
    /\ pc[w] = "backoff"
    /\ IF ctxDone[w]
       THEN Return(w)
       ELSE /\ attempt' = [attempt EXCEPT ![w] = @ + 1]
            /\ pc' = [pc EXCEPT ![w] = IF attempt[w] + 1 < maxRetries THEN "exec" ELSE "finalize"]
            /\ UNCHANGED <<task, execResult>>
    /\ UNCHANGED <<dbVars, executeCalls, ctxDone, storeFault, notifyChan, envVars, ticker,
                   workerstats, sandboxVars, events>>

\* A final UPDATE that also releases the row's owner.
FinalRow_ReleasesWorker(row, res) ==
    IF res.execErr # "nil"
    THEN [row EXCEPT !.finished = TRUE, !.status = TaskFailed, !.last_error = res.execErr,
                     !.worker_id = NULL]
    ELSE [row EXCEPT !.finished = TRUE, !.status = TaskCompleted, !.output = res.output,
                     !.worker_id = NULL]

\* The final UPDATE without its failure branch: the row is completed whatever
\* the retry loop ended with.
FinalRow_AlwaysCompleted(row, res) ==
    [row EXCEPT !.finished = TRUE, !.status = TaskCompleted, !.output = res.output]

\* The row after ProcessTasks' final UPDATE ... WHERE ID = task.ID.
FinalRow(row, res) ==
    IF res.execErr # "nil"
    THEN [row EXCEPT !.finished = TRUE, !.status = TaskFailed, !.last_error = res.execErr]
    ELSE [row EXCEPT !.finished = TRUE, !.status = TaskCompleted, !.output = res.output]

\* ProcessTasks: the final UPDATE and the counters.
Finalize(w) ==
    /\ pc[w] = "finalize"
    /\ IF storeFault
       THEN \* updateErr: counted as a database failure, then the outcome counter
            /\ workerstats' = [workerstats EXCEPT
                                 ![w] = IF execResult[w].execErr # "nil"
                                        THEN UpdateStats(UpdateStats(@, 0, 0, 0, 1, NoTask),
                                                         0, 0, 1, 0, NoTask)
                                        ELSE UpdateStats(UpdateStats(@, 0, 0, 0, 1, NoTask),
                                                         0, 1, 0, 0, NoTask)]
            /\ UNCHANGED <<TASKS, notifyChan>>
       ELSE /\ TASKS' = [TASKS EXCEPT ![task[w]] = FinalRow(@, execResult[w])]
            /\ notifyChan' = Notified(notifyChan, 1)
            /\ workerstats' = [workerstats EXCEPT
                                 ![w] = IF execResult[w].execErr # "nil"
                                        THEN UpdateStats(@, 0, 0, 1, 0, NoTask)
                                        ELSE UpdateStats(@, 0, 1, 0, 0, NoTask)]
    /\ Return(w)
    /\ UNCHANGED <<rowLock, executeCalls, ctxDone, storeFault, envVars, ticker, sandboxVars,
                   events>>

\* The reuse test without State.Running: a recorded container that answers
\* the inspect is reused, running or not.
InspectRunning_IgnoresState(w, inspectErr) ==
    /\ ~ctxDone[w]
    /\ ~inspectErr

\* ------------------------------------------------------ the sandbox manager
\* cli.ContainerInspect(ctx, activeContainerID) succeeded and State.Running holds.
InspectRunning(w, inspectErr) ==
    /\ ~ctxDone[w]
    /\ ~inspectErr
    /\ activeContainerID[w] \in runningC[w]

\* ExecuteTaskInDocker, first half: GetOrCreateContainer up to the reuse of the
\* recorded container or the creation and start of a new one.
GetOrCreateContainer(w) ==
    /\ pc[w] = "exec"
    /\ executeCalls' = [executeCalls EXCEPT ![w] = @ + 1]
    /\ IF activeContainerID[w] # NoContainer /\ InspectRunning(w, sandboxFault)
       THEN \* reuse: stamp lastUsedAt, start the sanitising exec, return the id
            \* without waiting for the exec to end
            /\ lastUsedAt' = [lastUsedAt EXCEPT ![w] = "recent"]
            /\ sanitiser' = [sanitiser EXCEPT ![w] = "running"]
            /\ containerID' = [containerID EXCEPT ![w] = activeContainerID[w]]
            /\ pc' = [pc EXCEPT ![w] = "script"]
            /\ UNCHANGED <<task, attempt, execResult, activeContainerID, containers,
                           runningC, created>>
       ELSE \* not running or inspect error: forget the id, create a new container
            /\ activeContainerID' = [activeContainerID EXCEPT ![w] = NoContainer]
            /\ IF ctxDone[w] \/ sandboxFault \/ created[w] >= MaxContainers
               THEN \* cli.ContainerCreate failed
                    /\ AfterExecute(w, "", "engine")
                    /\ UNCHANGED <<lastUsedAt, containers, runningC, containerID, created,
                                   sanitiser>>
               ELSE /\ created' = [created EXCEPT ![w] = @ + 1]
                    /\ containers' = [containers EXCEPT ![w] = @ \cup {created[w] + 1}]
                    /\ runningC' = [runningC EXCEPT ![w] = @ \cup {created[w] + 1}]
                    /\ containerID' = [containerID EXCEPT ![w] = created[w] + 1]
                    /\ pc' = [pc EXCEPT ![w] = "bringup"]
                    /\ UNCHANGED <<task, attempt, execResult, lastUsedAt, sanitiser>>
    /\ UNCHANGED <<dbVars, ctxDone, storeFault, notifyChan, envVars, ticker, workerstats,
                   reaperID, sandboxFault, events>>

\* What GetOrCreateContainer returns once the setup exec of the new container
\* `id` has ended: (id, err), from the error of cli.ContainerExecInspect and
\* the exit code it reports.
SetupReturn(id, inspectErr, exitCode) ==
    LET err == IF inspectErr THEN "engine" ELSE "nil"
    IN  IF err # "nil" \/ exitCode # 0
        THEN [id |-> NoContainer, err |-> err]
        ELSE [id |-> id, err |-> "nil"]

\* GetOrCreateContainer, bring-up: the setup exec ends with exit code
\* `setupExit` (non-zero: the shell was killed, an environment event); on
\* failure the new container is removed with the caller's ctx. Back in
\* ExecuteTaskInDocker, an error returns it; otherwise it goes on to the copy
\* with the id it was given.
BringUp(w) ==
    /\ pc[w] = "bringup"
    /\ \E setupExit \in {0, 1} :
          /\ setupExit # 0 => ~ctxDone[w] /\ ~sandboxFault /\ events < MaxEvents
          /\ events' = IF setupExit # 0 THEN events + 1 ELSE events
          /\ LET r == SetupReturn(containerID[w], ctxDone[w] \/ sandboxFault, setupExit) IN
             /\ IF r.id # NoContainer
                THEN /\ activeContainerID' = [activeContainerID EXCEPT ![w] = r.id]
                     /\ lastUsedAt' = [lastUsedAt EXCEPT ![w] = "recent"]
                     /\ UNCHANGED <<containers, runningC>>
                ELSE /\ IF ctxDone[w]
                        THEN UNCHANGED <<containers, runningC>>
                        ELSE /\ containers' = [containers EXCEPT ![w] = @ \ {containerID[w]}]
                             /\ runningC' = [runningC EXCEPT ![w] = @ \ {containerID[w]}]
                     /\ UNCHANGED <<activeContainerID, lastUsedAt>>
             /\ containerID' = [containerID EXCEPT ![w] = r.id]
             /\ IF r.err # "nil"
                THEN AfterExecute(w, "", r.err)
                ELSE /\ pc' = [pc EXCEPT ![w] = "script"]
                     /\ UNCHANGED <<task, attempt, execResult>>
    /\ UNCHANGED <<dbVars, executeCalls, ctxDone, storeFault, notifyChan, envVars, ticker,
                   workerstats, reaperID, created, sanitiser, sandboxFault>>

\* What ExecuteTaskInDocker returns once the script's exec has ended with exit
\* code `code` in a running container: (stdout, err).
ExecReturn(code) ==
    LET err == "nil"    \* the error of cli.ContainerExecInspect, which succeeded
    IN  IF code # 0
        THEN [output |-> "stdout", execErr |-> err]
        ELSE [output |-> "stdout", execErr |-> "nil"]

\* The exit codes the script's exec can end with: python's for the script
\* text, or, when the sanitising exec of this reuse is still running while
\* the files are copied in, python's for a script.py its rm has deleted.
ScriptExitCodes(w) ==
    IF sanitiser[w] = "running"
    THEN {ExitCode(TASKS[task[w]].code), 2}
    ELSE {ExitCode(TASKS[task[w]].code)}

\* ExecuteTaskInDocker, second half: copy, exec, wait, inspect the exit code.
\* A sanitising exec still running at the copy has ended when the call returns.
RunScript(w) ==
    /\ pc[w] = "script"
    /\ IF ctxDone[w] \/ sandboxFault \/ containerID[w] \notin runningC[w]
       THEN /\ AfterExecute(w, "", IF ctxDone[w] THEN "context canceled" ELSE "engine")
            /\ UNCHANGED lastUsedAt
       ELSE \E code \in ScriptExitCodes(w) :
               LET r == ExecReturn(code) IN
               /\ AfterExecute(w, r.output, r.execErr)
               /\ lastUsedAt' = IF code = 0
                                THEN [lastUsedAt EXCEPT ![w] = "recent"]
                                ELSE lastUsedAt
    /\ containerID' = [containerID EXCEPT ![w] = NoContainer]
    /\ sanitiser' = [sanitiser EXCEPT ![w] = "done"]
    /\ UNCHANGED <<dbVars, executeCalls, ctxDone, storeFault, notifyChan, envVars, ticker,
                   workerstats, activeContainerID, containers, runningC, reaperID, created,
                   sandboxFault, events>>

\* The sanitising exec started by a reuse ends inside the container.
SanitiserEnds(w) ==
    /\ sanitiser[w] = "running"
    /\ sanitiser' = [sanitiser EXCEPT ![w] = "done"]
    /\ UNCHANGED <<dbVars, loopVars, activeContainerID, lastUsedAt, containers, runningC,
                   containerID, reaperID, created, sandboxFault, events>>

\* The reaper's tick without the idle test: a recorded container is taken
\* whatever its last use.
ReaperTick_IgnoresIdle(w) ==
    /\ ProcessAlive(w)
    /\ pc[w] # "bringup"
    /\ reaperID[w] = NoContainer
    /\ activeContainerID[w] # NoContainer
    /\ reaperID' = [reaperID EXCEPT ![w] = activeContainerID[w]]
    /\ activeContainerID' = [activeContainerID EXCEPT ![w] = NoContainer]
    /\ UNCHANGED <<dbVars, loopVars, lastUsedAt, containers, runningC, containerID, created, sanitiser,
                   sandboxFault, events>>

\* RunContainerReaper, a tick that finds the container idle: forget the id
\* under the mutex (the removal follows after the unlock).
ReaperTick(w) ==
    /\ ProcessAlive(w)
    /\ pc[w] # "bringup"
    /\ reaperID[w] = NoContainer
    /\ activeContainerID[w] # NoContainer
    /\ lastUsedAt[w] = "idle"
    /\ reaperID' = [reaperID EXCEPT ![w] = activeContainerID[w]]
    /\ activeContainerID' = [activeContainerID EXCEPT ![w] = NoContainer]
    /\ UNCHANGED <<dbVars, loopVars, lastUsedAt, containers, runningC, containerID, created, sanitiser,
                   sandboxFault, events>>

\* RunContainerReaper: cli.ContainerRemove of the id it took.
ReaperRemove(w) ==
    /\ ProcessAlive(w)
    /\ reaperID[w] # NoContainer
    /\ containers' = [containers EXCEPT ![w] = @ \ {reaperID[w]}]
    /\ runningC' = [runningC EXCEPT ![w] = @ \ {reaperID[w]}]
    /\ reaperID' = [reaperID EXCEPT ![w] = NoContainer]
    /\ UNCHANGED <<dbVars, loopVars, activeContainerID, lastUsedAt, containerID, created, sanitiser,
                   sandboxFault, events>>

\* main's select, case <-ctx.Done(): CleanupActiveContainer, then return.
Shutdown(w) ==
    /\ pc[w] = "wait"
    /\ ctxDone[w]
    /\ containers' = [containers EXCEPT ![w] = @ \ {activeContainerID[w]}]
    /\ runningC' = [runningC EXCEPT ![w] = @ \ {activeContainerID[w]}]
    /\ activeContainerID' = [activeContainerID EXCEPT ![w] = NoContainer]
    /\ pc' = [pc EXCEPT ![w] = "exited"]
    /\ UNCHANGED <<dbVars, task, attempt, executeCalls, execResult, ctxDone, storeFault, notifyChan,
                   envVars, ticker, workerstats, lastUsedAt, containerID, reaperID,
                   created, sanitiser, sandboxFault, events>>

\* ------------------------------------------------------------ environment
\* SIGINT / SIGTERM reaches the worker: signal.NotifyContext cancels ctx.
Cancel(w) ==
    /\ ProcessAlive(w)
    /\ ~ctxDone[w]
    /\ events < MaxEvents
    /\ events' = events + 1
    /\ ctxDone' = [ctxDone EXCEPT ![w] = TRUE]
    /\ UNCHANGED <<dbVars, pc, task, attempt, executeCalls, execResult, storeFault, notifyChan,
                   envVars, ticker, workerstats, sandboxVars>>

\* The worker process is killed and its transaction stays open: the row
\* lock of the claim query is not released.
Crash_KeepsRowLock(w) ==
    /\ ProcessAlive(w)
    /\ events < MaxEvents
    /\ events' = events + 1
    /\ pc' = [pc EXCEPT ![w] = "crashed"]
    /\ UNCHANGED <<TASKS, rowLock, task, attempt, executeCalls, execResult, ctxDone, storeFault,
                   notifyChan, envVars, ticker, workerstats, sandboxVars>>

\* The worker process is killed; its open transaction is rolled back.
Crash(w) ==
    /\ ProcessAlive(w)
    /\ events < MaxEvents
    /\ events' = events + 1
    /\ pc' = [pc EXCEPT ![w] = "crashed"]
    /\ rowLock' = [t \in Tasks |-> IF rowLock[t] = w THEN NULL ELSE rowLock[t]]
    /\ UNCHANGED <<TASKS, task, attempt, executeCalls, execResult, ctxDone, storeFault, notifyChan,
                   envVars, ticker, workerstats, sandboxVars>>

\* Time passes: a running row's LOCKED_AT becomes older than one hour.
LockExpires(t) ==
    /\ TASKS[t].status = TaskRunning
    /\ TASKS[t].locked_at = "fresh"
    /\ events < MaxEvents
    /\ events' = events + 1
    /\ TASKS' = [TASKS EXCEPT ![t].locked_at = "stale"]
    /\ UNCHANGED <<rowLock, loopVars, sandboxVars>>

\* Time passes: time.Since(lastUsedAt) exceeds the idle timeout.
IdleTimeoutElapses(w) ==
    /\ ProcessAlive(w)
    /\ activeContainerID[w] # NoContainer
    /\ lastUsedAt[w] = "recent"
    /\ events < MaxEvents
    /\ events' = events + 1
    /\ lastUsedAt' = [lastUsedAt EXCEPT ![w] = "idle"]
    /\ UNCHANGED <<dbVars, loopVars, activeContainerID, containers, runningC, containerID,
                   reaperID, created, sanitiser, sandboxFault>>

\* The recorded container stops running (killed, out of memory).
ContainerStops(w) ==
    /\ events < MaxEvents
    /\ activeContainerID[w] \in runningC[w]
    /\ events' = events + 1
    /\ runningC' = [runningC EXCEPT ![w] = @ \ {activeContainerID[w]}]
    /\ UNCHANGED <<dbVars, loopVars, activeContainerID, lastUsedAt, containers, containerID,
                   reaperID, created, sanitiser, sandboxFault>>

\* A queued notification is lost (listener reconnect).
NotificationLost(w) ==
    /\ notifyChan[w] > 0
    /\ notifyChan' = [notifyChan EXCEPT ![w] = @ - 1]
    /\ UNCHANGED <<dbVars, pc, task, attempt, executeCalls, execResult, ctxDone, storeFault, envVars,
                   ticker, workerstats, sandboxVars, events>>

\* The runtime starts failing the calls ExecuteTaskInDocker makes (daemon
\* unreachable, image or resources missing).
FaultBegins ==
    /\ ~sandboxFault
    /\ events < MaxEvents
    /\ events' = events + 1
    /\ sandboxFault' = TRUE
    /\ UNCHANGED <<dbVars, loopVars, activeContainerID, lastUsedAt, containers, runningC,
                   containerID, reaperID, created, sanitiser>>

\* The runtime answers again.
FaultEnds ==
    /\ sandboxFault
    /\ events < MaxEvents
    /\ events' = events + 1
    /\ sandboxFault' = FALSE
    /\ UNCHANGED <<dbVars, loopVars, activeContainerID, lastUsedAt, containers, runningC,
                   containerID, reaperID, created, sanitiser>>

\* The store starts failing the statements the workers send (connection
\* lost, server down).
StoreFaultBegins ==
    /\ ~storeFault
    /\ events < MaxEvents
    /\ events' = events + 1
    /\ storeFault' = TRUE
    /\ UNCHANGED <<dbVars, pc, task, attempt, executeCalls, execResult, ctxDone, notifyChan,
                   envVars, ticker, workerstats, sandboxVars>>

\* ------------------------------------------------------------------- system
WorkerStep(w) ==
    \/ Start(w)
    \/ TickerWake(w)
    \/ NotifyWake(w)
    \/ ClaimSelect(w)
    \/ ClaimCommit(w)
    \/ GetOrCreateContainer(w)
    \/ BringUp(w)
    \/ RunScript(w)
    \/ Backoff(w)
    \/ Finalize(w)
    \/ Shutdown(w)

Next ==
    \/ \E w \in Workers : WorkerStep(w)
    \/ \E w \in Workers : ReaperTick(w)
    \/ \E w \in Workers : ReaperRemove(w)
    \/ \E w \in Workers : Cancel(w)
    \/ \E w \in Workers : Crash(w)
    \/ \E t \in Tasks : LockExpires(t)
    \/ \E w \in Workers : IdleTimeoutElapses(w)
    \/ \E w \in Workers : ContainerStops(w)
    \/ \E w \in Workers : NotificationLost(w)
    \/ \E w \in Workers : SanitiserEnds(w)
    \/ FaultBegins
    \/ FaultEnds
    \/ StoreFaultBegins

Spec == Init /\ [][Next]_vars

\* Worker 1 alone, with any band and rows of any priority; worker 2 was killed
\* either before it claimed anything or while it held row 1 (running, its lock
\* still young).
SoloInit ==
    \E rows \in PendingRows(Priorities, {"exit0"}), band \in Bands, orphan \in BOOLEAN :
        InitWith({1},
                 IF orphan
                 THEN [rows EXCEPT ![1].status = TaskRunning, ![1].worker_id = 2,
                                   ![1].locked_at = "fresh", ![1].started = TRUE]
                 ELSE rows,
                 [w \in Workers |-> IF w = 1 THEN band ELSE <<0, 0>>],
                 0)

SoloSpec == SoloInit /\ [][Next]_vars

\* Scheduling: a worker that is not killed keeps running, its ticker keeps
\* ticking, and every call it makes returns. Nothing is assumed of notifications.
Fairness ==
    \A w \in Workers :
        /\ WF_vars(Start(w))
        /\ WF_vars(TickerWake(w))
        /\ WF_vars(ClaimSelect(w))
        /\ WF_vars(ClaimCommit(w))
        /\ WF_vars(GetOrCreateContainer(w))
        /\ WF_vars(BringUp(w))
        /\ WF_vars(RunScript(w))
        /\ WF_vars(Backoff(w))
        /\ WF_vars(Finalize(w))

FairSoloSpec == SoloSpec /\ Fairness

\* Worker 1 alone with the default band (0, 0) and rows of default priority;
\* worker 2 was killed while it held row 1 (running, its lock still young).
RecoveryInit ==
    \E rows \in PendingRows({0}, Scripts) :
        InitWith({1},
                 [rows EXCEPT ![1].status = TaskRunning, ![1].worker_id = 2,
                              ![1].locked_at = "fresh", ![1].started = TRUE],
                 [w \in Workers |-> <<0, 0>>],
                 0)

FairRecoverySpec == RecoveryInit /\ [][Next]_vars /\ Fairness

\* Worker 1 alone with the default band; the rows were inserted after its
\* listener.Listen, so one notification per row is queued when it reaches the
\* initial check.
StormInit ==
    \E rows \in PendingRows({0}, Scripts) :
        InitState({1}, rows, [w \in Workers |-> <<0, 0>>], 0, NumTasks)

StormSpec == StormInit /\ [][Next]_vars

\* Worker 1 alone with the default band and POLLING_INTERVAL set to any value
\* of 0..MaxPolling; rows of default priority.
PollingInit ==
    \E rows \in PendingRows({0}, {"exit0"}), p \in 0..MaxPolling :
        InitEnv({1}, rows, [w \in Workers |-> <<0, 0>>],
                [w \in Workers |-> IF w = 1 THEN p ELSE 0], 0, 0)

PollingSpec == PollingInit /\ [][Next]_vars

\* Worker 1 alone with the band (0, 0) or (5, 5); rows of priority 0, 4, 5 or 6.
BandInit ==
    \E rows \in PendingRows({0, 4, 5, 6}, {"exit0"}), band \in {<<0, 0>>, <<5, 5>>} :
        InitWith({1}, rows, [w \in Workers |-> IF w = 1 THEN band ELSE <<0, 0>>], 0)

BandSpec == BandInit /\ [][Next]_vars

\* Worker 1 alone with the default band; rows of distinct priorities (row t
\* has priority t - 1) whose code reference resolves to a script that exits
\* 0, or does not resolve.
PoisonInit ==
    \E rows \in PendingRows(0..(NumTasks - 1), {"exit0", "dangling"}) :
        /\ \A t \in Tasks : rows[t].priority = t - 1
        /\ InitWith({1}, rows, [w \in Workers |-> <<0, 0>>], 0)

FairPoisonSpec == PoisonInit /\ [][Next]_vars /\ Fairness

\* ------------------------------------------------------------------- claims
\* The worker is inside the execute phase of ProcessTasks for task[w].
InExecutePhase(w) == pc[w] \in {"exec", "bringup", "script", "backoff", "finalize"}

\* Priority p lies in the band [a, b], a zero bound being unbounded on its side.
InBand(p, a, b) == (a = 0 \/ p >= a) /\ (b = 0 \/ p <= b)

\* C1: under any interleaving of the workers, no task is claimed by more than
\* one worker: two distinct workers are never both inside the execute phase
\* (or the claim transaction) for the same task id.
C1_AtMostOneWorkerPerTask ==
    \A w1, w2 \in Workers :
        (w1 # w2 /\ pc[w1] \in {"tx", "exec", "bringup", "script", "backoff", "finalize"}
                 /\ pc[w2] \in {"tx", "exec", "bringup", "script", "backoff", "finalize"})
        => task[w1] # task[w2]

\* C1 witness: both workers are in the execute phase at once, each on a task
\* it claimed while the other's claim was possible.
C1_Witness ==
    \E w1, w2 \in Workers :
        /\ w1 # w2
        /\ InExecutePhase(w1) /\ InExecutePhase(w2)
        /\ TASKS[task[w1]].worker_id = w1 /\ TASKS[task[w2]].worker_id = w2

\* C2: every change of a task's status is one of pending->running,
\* pending->malicious, running->completed, running->failed; a task that is
\* completed, failed or malicious never changes status again.
C2_StatusTransitions ==
    [][\A t \in Tasks :
          TASKS'[t].status # TASKS[t].status
          => <<TASKS[t].status, TASKS'[t].status>> \in
                {<<TaskPending, TaskRunning>>, <<TaskPending, TaskMalicious>>,
                 <<TaskRunning, TaskCompleted>>, <<TaskRunning, TaskFailed>>}]_vars

\* C3: a task whose script exits non-zero on every attempt is never marked
\* completed (it ends failed, with last_error set).
C3_NonZeroExitNeverCompleted ==
    \A t \in Tasks : ExitCode(TASKS[t].code) # 0 => TASKS[t].status # TaskCompleted

\* C4: with MIN_PRIORITY = a and MAX_PRIORITY = b, the rows the claim step can
\* select are exactly the unlocked pending rows whose priority p satisfies
\* (a = 0 or p >= a) and (b = 0 or p <= b).
C4_ClaimWithinBand ==
    \A w \in Workers :
        pc[w] = "process"
        => Eligible(w) = {t \in Tasks : /\ TASKS[t].status = TaskPending
                                        /\ TASKS[t].locked_at = "null"
                                        /\ rowLock[t] = NULL
                                        /\ InBand(TASKS[t].priority, MIN_PRIORITY[w], MAX_PRIORITY[w])}

\* C5: once the cancellation signal has been raised, no task is moved
\* pending->running under the worker's id.
C5_NoClaimAfterCancel ==
    [][\A w \in Workers, t \in Tasks :
          ~(/\ ctxDone[w]
            /\ TASKS[t].status = TaskPending
            /\ TASKS'[t].status = TaskRunning
            /\ TASKS'[t].worker_id = w)]_vars

\* C6: when the worker has exited after a cancellation signal, no container
\* that it created is left in the runtime.
C6_NoContainerLeftAtExit ==
    \A w \in Workers : pc[w] = "exited" => containers[w] = {}

\* C7: at every instant the set of containers a worker has created and that
\* have not been removed has at most one element.
C7_AtMostOneContainer ==
    \A w \in Workers : Cardinality(containers[w]) <= 1

\* The row was left running by a worker that has been killed.
Orphaned(t) ==
    /\ TASKS[t].status = TaskRunning
    /\ \E w \in Workers : TASKS[t].worker_id = w /\ pc[w] = "crashed"

\* C8: a task left running whose locked_at is older than the stale threshold
\* is eventually rewritten to failed, provided a worker stays alive with its
\* ticker firing and the store answering, whatever happens to notifications.
C8_StaleEventuallyFailed ==
    \A t \in Tasks :
        (\E w \in Workers : [](ProcessAlive(w) /\ ~ctxDone[w] /\ ~storeFault))
        => ((Orphaned(t) /\ TASKS[t].locked_at = "stale") ~> (TASKS[t].status = TaskFailed))

\* C9: ticker wakes alone cause every pending task inside the worker's
\* priority band to be claimed eventually, the worker not being cancelled
\* and the store answering.
C9_PendingInBandEventuallyClaimed ==
    \A t \in Tasks, w \in Workers :
        [](ProcessAlive(w) /\ ~ctxDone[w] /\ ~storeFault)
        => ((/\ TASKS[t].status = TaskPending
             /\ InBand(TASKS[t].priority, MIN_PRIORITY[w], MAX_PRIORITY[w]))
            ~> (TASKS[t].status # TaskPending))

\* The worker that claimed the row was killed after ExecuteTaskInDocker had
\* returned the script's output and before the final UPDATE.
CrashedAfterExecute(t) ==
    \E w \in Workers :
        /\ pc[w] = "crashed"
        /\ task[w] = t
        /\ TASKS[t].worker_id = w
        /\ execResult[w].output = "stdout"

\* C10: at-least-once delivery: a task whose worker crashed between executing
\* it and recording the result is handed back to the queue, so that a second
\* worker can claim and run it: when such a row leaves running it is pending.
C10_CrashedTaskRequeued ==
    [][\A t \in Tasks :
          (CrashedAfterExecute(t) /\ TASKS[t].status = TaskRunning
                                  /\ TASKS'[t].status # TaskRunning)
          => TASKS'[t].status = TaskPending]_vars

\* No row that has left pending is ever pending again: no second claim of a task.
NeverRequeued ==
    [][\A t \in Tasks : TASKS[t].status # TaskPending => TASKS'[t].status # TaskPending]_vars

\* C11: for every claimed task ExecuteTaskInDocker is invoked at least once
\* (before the retry loop is left for the final UPDATE) and at most 3 times;
\* each invocation after the first follows an attempt that returned an error,
\* and none follows a successful attempt.
C11_ExecuteAttempts ==
    [][\A w \in Workers :
          /\ executeCalls'[w] <= 3
          /\ pc'[w] = "finalize" => executeCalls'[w] >= 1
          /\ executeCalls'[w] > executeCalls[w]
             => /\ executeCalls'[w] = executeCalls[w] + 1
                /\ executeCalls[w] = 0 \/ execResult[w].execErr # "nil"]_vars

\* C11 witness: a second attempt was made after a failed first one, and it
\* succeeded.
C11_Witness ==
    \E w \in Workers :
        pc[w] = "finalize" /\ executeCalls[w] = 2 /\ execResult[w].execErr = "nil"

\* C12: when all three execute attempts of a claimed task have failed and
\* cancellation was never signalled, the cycle ends with exactly three
\* invocations, the task failed with finished set and last_error the
\* (non-empty) message of the last error, tasks_failed incremented by exactly
\* one and tasks_successful unchanged (the store accepting the final UPDATE).
C12_ExhaustedRetriesFail ==
    [][\A w \in Workers :
          (pc[w] = "finalize" /\ pc'[w] = "wait" /\ execResult[w].execErr # "nil"
                              /\ ~storeFault)
          => /\ executeCalls[w] = 3
             /\ TASKS'[task[w]].status = TaskFailed
             /\ TASKS'[task[w]].finished
             /\ TASKS'[task[w]].last_error = execResult[w].execErr
             /\ TASKS'[task[w]].last_error \notin {"", "null", "nil"}
             /\ workerstats'[w].TasksFailed = workerstats[w].TasksFailed + 1
             /\ workerstats'[w].TasksSuccessful = workerstats[w].TasksSuccessful]_vars

\* C12 witness: a worker is back in its loop after three failed attempts, the
\* task it claimed failed with the engine's error, one failure counted.
C12_Witness ==
    \E w \in Workers, t \in Tasks :
        /\ pc[w] = "wait" /\ ~ctxDone[w]
        /\ executeCalls[w] = 3
        /\ TASKS[t].worker_id = w /\ TASKS[t].status = TaskFailed
        /\ TASKS[t].last_error = "engine"
        /\ workerstats[w].TasksFailed = 1 /\ workerstats[w].TasksSuccessful = 0

\* C13: when execute fails on the first k-1 attempts and succeeds on attempt k
\* (k in 1..3) without cancellation, it has been invoked exactly k times (one
\* more than the failed attempts the loop index counts), the task ends
\* completed with finished set and output the stdout of the successful
\* attempt, tasks_successful is incremented by exactly one and tasks_failed is
\* unchanged (the store accepting the final UPDATE).
C13_SuccessOnAttemptK ==
    [][\A w \in Workers :
          (pc[w] = "finalize" /\ pc'[w] = "wait" /\ execResult[w].execErr = "nil"
                              /\ ~storeFault)
          => /\ executeCalls[w] = attempt[w] + 1
             /\ executeCalls[w] \in 1..3
             /\ TASKS'[task[w]].status = TaskCompleted
             /\ TASKS'[task[w]].finished
             /\ TASKS'[task[w]].output = execResult[w].output
             /\ execResult[w].output = "stdout"
             /\ workerstats'[w].TasksSuccessful = workerstats[w].TasksSuccessful + 1
             /\ workerstats'[w].TasksFailed = workerstats[w].TasksFailed]_vars

\* C13 witness: a task completed by the third attempt after two failed ones.
C13_Witness ==
    \E w \in Workers, t \in Tasks :
        /\ pc[w] = "wait" /\ ~ctxDone[w]
        /\ executeCalls[w] = 3
        /\ TASKS[t].worker_id = w /\ TASKS[t].status = TaskCompleted
        /\ TASKS[t].output = "stdout"
        /\ workerstats[w].TasksSuccessful = 1 /\ workerstats[w].TasksFailed = 0

\* C14: when an execute attempt fails while cancellation has been signalled,
\* or cancellation has arrived during the backoff, the cycle returns without
\* any further store update: the task's row (running, worker_id, locked_at,
\* finished, output, last_error) is unchanged and neither tasks_successful
\* nor tasks_failed is incremented.
C14_CancelledCycleWritesNothing ==
    [][\A w \in Workers :
          (/\ ctxDone[w]
           /\ \/ /\ pc[w] \in {"exec", "bringup", "script"}
                 /\ pc'[w] \notin {pc[w], "bringup", "script", "finalize", "crashed"}
              \/ /\ pc[w] = "backoff"
                 /\ pc'[w] \notin {pc[w], "crashed"})
          => /\ pc'[w] = "wait"
             /\ TASKS' = TASKS
             /\ workerstats'[w].TasksSuccessful = workerstats[w].TasksSuccessful
             /\ workerstats'[w].TasksFailed = workerstats[w].TasksFailed]_vars

\* C14 witness: a cancelled worker is back in main's select after an execute
\* call, its task still running under its id, nothing recorded.
C14_Witness ==
    \E w \in Workers, t \in Tasks :
        /\ ctxDone[w] /\ pc[w] = "wait"
        /\ executeCalls[w] >= 1
        /\ TASKS[t].status = TaskRunning /\ TASKS[t].worker_id = w
        /\ TASKS[t].locked_at # "null" /\ ~TASKS[t].finished
        /\ TASKS[t].output = "null" /\ TASKS[t].last_error = "null"
        /\ workerstats[w].TasksSuccessful = 0 /\ workerstats[w].TasksFailed = 0

\* C15: a task whose script the screener classifies as malicious ends in the
\* terminal status malicious: the claim step sets nothing but the status
\* (output, finished, worker_id and locked_at stay unset), increments no
\* counter (tasks_processed included), invokes no execute and brings up no
\* container; the row never changes afterwards and no worker is ever in the
\* execute phase for it (the store answering the claim's statements).
C15_MaliciousNeverExecuted ==
    [][/\ \A w \in Workers :
            (pc[w] = "tx" /\ pc'[w] \notin {"tx", "crashed"}
                          /\ AnalyzeCode(TASKS[task[w]].code) /\ ~storeFault)
            => /\ pc'[w] = "wait"
               /\ TASKS'[task[w]] = [TASKS[task[w]] EXCEPT !.status = TaskMalicious]
               /\ TASKS'[task[w]].output = "null" /\ ~TASKS'[task[w]].finished
               /\ TASKS'[task[w]].worker_id = NULL /\ TASKS'[task[w]].locked_at = "null"
               /\ workerstats'[w] = workerstats[w]
               /\ executeCalls'[w] = executeCalls[w]
               /\ created'[w] = created[w] /\ containers'[w] = containers[w]
       /\ \A t \in Tasks : TASKS[t].status = TaskMalicious => TASKS'[t] = TASKS[t]
       /\ \A w \in Workers :
            pc'[w] \in {"exec", "bringup", "script", "backoff", "finalize"}
            => /\ TASKS'[task'[w]].status # TaskMalicious
               /\ ~AnalyzeCode(TASKS'[task'[w]].code)]_vars

\* C15 witness: a flagged script's task is malicious, nothing else set on its
\* row, while the worker that screened it has processed nothing and created
\* no container.
C15_Witness ==
    \E t \in Tasks, w \in Workers :
        /\ AnalyzeCode(TASKS[t].code) /\ TASKS[t].status = TaskMalicious
        /\ TASKS[t].worker_id = NULL /\ TASKS[t].locked_at = "null"
        /\ pc[w] = "wait" /\ workerstats[w].TasksProcessed = 0 /\ created[w] = 0

\* C16: the recovery pass changes exactly the rows that are running with a
\* locked_at older than the stale threshold, setting them failed with
\* finished and the timeout/crash last_error; every other row (pending,
\* terminal, running with a younger lock) is left unchanged, and the count it
\* reports is the number of rows changed. Checked on the initial check's
\* pass of every worker (the store accepting the UPDATE), and on every step
\* that writes the recovery error.
C16_RecoveryChangesOnlyStaleRows ==
    [][/\ ((\E w \in Workers : pc[w] = "start" /\ pc'[w] = "process") /\ ~storeFault)
          => /\ \A t \in Tasks :
                   IF TASKS[t].status = TaskRunning /\ TASKS[t].locked_at = "stale"
                   THEN TASKS'[t] = [TASKS[t] EXCEPT
                                       !.status = TaskFailed, !.finished = TRUE,
                                       !.last_error = "Timeout/Worker Crash (1h limit)"]
                   ELSE TASKS'[t] = TASKS[t]
             /\ RecoveredCount = Cardinality({t \in Tasks : TASKS'[t] # TASKS[t]})
       /\ \A t \in Tasks :
            (/\ TASKS'[t].last_error = "Timeout/Worker Crash (1h limit)"
             /\ TASKS[t].last_error # "Timeout/Worker Crash (1h limit)")
            => /\ TASKS[t].status = TaskRunning /\ TASKS[t].locked_at = "stale"
               /\ TASKS'[t].status = TaskFailed /\ TASKS'[t].finished]_vars

\* C16 witness: a recovery pass has failed one row with the timeout/crash
\* error while another row, running with a younger lock, is as it was.
C16_Witness ==
    \E t, u \in Tasks :
        /\ TASKS[t].status = TaskFailed /\ TASKS[t].finished
        /\ TASKS[t].last_error = "Timeout/Worker Crash (1h limit)"
        /\ TASKS[u].status = TaskRunning /\ TASKS[u].locked_at = "fresh"
        /\ ~TASKS[u].finished /\ TASKS[u].last_error = "null"

\* C17: in every reachable state, for every task, finished set implies that
\* the status is one of completed, failed, malicious.
C17_FinishedImpliesTerminal ==
    \A t \in Tasks :
        TASKS[t].finished => TASKS[t].status \in {TaskCompleted, TaskFailed, TaskMalicious}

\* C17 witness: one row finished by the final UPDATE (completed) and one
\* finished by the recovery pass (failed).
C17_Witness ==
    \E t, u \in Tasks :
        /\ TASKS[t].finished /\ TASKS[t].status = TaskCompleted
        /\ TASKS[u].finished /\ TASKS[u].status = TaskFailed
        /\ TASKS[u].last_error = "Timeout/Worker Crash (1h limit)"

\* C18: in every reachable state, for every task, locked_at set implies
\* worker_id set, and worker_id set implies that the status is running,
\* failed or completed (never pending or malicious).
C18_LockImpliesOwner ==
    \A t \in Tasks :
        /\ TASKS[t].locked_at # "null" => TASKS[t].worker_id # NULL
        /\ TASKS[t].worker_id # NULL
           => TASKS[t].status \in {TaskRunning, TaskFailed, TaskCompleted}

\* C18 witness: a completed row keeps its owner and lock while another row,
\* screened malicious, has neither.
C18_Witness ==
    \E t, u \in Tasks :
        /\ TASKS[t].status = TaskCompleted
        /\ TASKS[t].worker_id \in Workers /\ TASKS[t].locked_at # "null"
        /\ TASKS[u].status = TaskMalicious
        /\ TASKS[u].worker_id = NULL /\ TASKS[u].locked_at = "null"

\* C19: with no other transaction holding row locks, a claim selects a task
\* whose priority value is minimal among all pending, unlocked tasks inside
\* the worker's band [MIN_PRIORITY, MAX_PRIORITY] (lower value first).
C19_LowestPriorityValueFirst ==
    [][\A w \in Workers :
          (pc[w] = "process" /\ pc'[w] = "tx" /\ \A t \in Tasks : rowLock[t] = NULL)
          => LET inBand == {t \in Tasks : /\ TASKS[t].status = TaskPending
                                          /\ TASKS[t].locked_at = "null"
                                          /\ InBand(TASKS[t].priority,
                                                    MIN_PRIORITY[w], MAX_PRIORITY[w])}
             IN  /\ task'[w] \in inBand
                 /\ \A u \in inBand : TASKS[task'[w]].priority <= TASKS[u].priority]_vars

\* C20: each wake of the worker loop (initial pass, ticker tick, one received
\* notification) commits at most one claim, however many notifications are
\* queued and however many tasks are pending: the claim query is entered by a
\* wake only, a wake runs it once, a commit sets one row running, and after a
\* commit the worker does not query again before it is back in main's select.
C20_OneClaimPerWake ==
    [][\A w \in Workers :
          /\ (pc'[w] = "process" /\ pc[w] # "process") => pc[w] \in {"start", "wait"}
          /\ (pc'[w] = "tx" /\ pc[w] # "tx") => pc[w] = "process"
          /\ (\E t \in Tasks : /\ TASKS[t].status = TaskPending
                                /\ TASKS'[t].status = TaskRunning
                                /\ TASKS'[t].worker_id = w)
             => /\ pc[w] = "tx" /\ pc'[w] = "exec"
                /\ Cardinality({t \in Tasks : /\ TASKS[t].status = TaskPending
                                              /\ TASKS'[t].status # TaskPending}) = 1
          /\ (pc[w] = "wait" /\ pc'[w] = "process")
             => notifyChan'[w] >= notifyChan[w] - 1]_vars

\* C20 witness: the worker has committed one claim in this wake and is
\* executing it while several notifications are queued and another task is
\* still pending.
C20_Witness ==
    \E w \in Workers, u \in Tasks :
        /\ pc[w] \in {"exec", "bringup", "script"}
        /\ TASKS[task[w]].status = TaskRunning /\ TASKS[task[w]].worker_id = w
        /\ notifyChan[w] >= 2
        /\ TASKS[u].status = TaskPending

Max(a, b) == IF a >= b THEN a ELSE b

\* C21: for every configured POLLING_INTERVAL value p >= 0 the fallback
\* ticker's interval is max(p, 5) seconds.
C21_TickerIntervalIsMax ==
    \A w \in Workers : ticker[w] # 0 => ticker[w] = Max(POLLING_INTERVAL[w], 5)

\* The rows the claim query may return to w, without the priority conditions.
PendingUnlocked == {t \in Tasks : /\ TASKS[t].status = TaskPending
                                  /\ TASKS[t].locked_at = "null"
                                  /\ rowLock[t] = NULL}

\* C22: a band (MIN_PRIORITY, MAX_PRIORITY) = (0, 0) makes every pending
\* unlocked task eligible whatever its priority, and a band (5, 5) makes
\* eligible exactly the tasks of priority 5.
C22_SymmetricBands ==
    \A w \in Workers :
        pc[w] = "process"
        => /\ (MIN_PRIORITY[w] = 0 /\ MAX_PRIORITY[w] = 0) => Eligible(w) = PendingUnlocked
           /\ (MIN_PRIORITY[w] = 5 /\ MAX_PRIORITY[w] = 5)
              => Eligible(w) = {t \in PendingUnlocked : TASKS[t].priority = 5}

\* C22 witness: a worker with the band (5, 5) is about to query while a task
\* of priority 5 and a task of another priority are pending: the first is
\* eligible, the second is not.
C22_Witness ==
    \E w \in Workers, t, u \in Tasks :
        /\ pc[w] = "process" /\ MIN_PRIORITY[w] = 5 /\ MAX_PRIORITY[w] = 5
        /\ TASKS[t].priority = 5 /\ t \in Eligible(w)
        /\ TASKS[u].status = TaskPending /\ TASKS[u].priority # 5 /\ u \notin Eligible(w)

\* C23: recover_stale applied twice in succession (nothing else happening
\* and no time passing in between) leaves the table after the second call
\* identical to the table after the first, and the second call reports 0
\* recovered rows: in the state a recovery pass leaves, the recovery UPDATE
\* matches no row and maps the table to itself.
C23_RecoveryIdempotent ==
    [][(/\ ~storeFault
        /\ \E w \in Workers : /\ pc[w] \in {"start", "wait"} /\ pc'[w] = "process"
                              /\ Start(w) \/ NotifyWake(w))
       => (RecoveredCount' = 0 /\ RecoverTasks' = TASKS')]_vars

\* C23 witness: a recovery pass has just failed a stale row and a further
\* pass would change nothing.
C23_Witness ==
    \E w \in Workers, t \in Tasks :
        /\ pc[w] = "process"
        /\ TASKS[t].status = TaskFailed
        /\ TASKS[t].last_error = "Timeout/Worker Crash (1h limit)"
        /\ RecoveredCount = 0 /\ RecoverTasks = TASKS

\* C24: in every execute on a reused container the sanitising command has run
\* to completion before the new script.py and payload.json are copied in.
C24_SanitiserEndsBeforeCopy ==
    [][\A w \in Workers : RunScript(w) => sanitiser[w] = "done"]_vars

\* C25: the idle reaper never removes the container while an execute is in
\* flight on it.
C25_ReaperSparesInFlightExecute ==
    [][\A w \in Workers :
          ReaperRemove(w) => ~(pc[w] = "script" /\ containerID[w] = reaperID[w])]_vars

\* C26: on every wake of the worker loop (notification, fallback ticker) and
\* on the initial pass, recover_stale is run before the claim-and-process
\* cycle of that wake: the wake leaves the table as the recovery UPDATE makes
\* it (the store accepting the UPDATE).
C26_RecoveryOnEveryWake ==
    [][\A w \in Workers :
          (pc[w] \in {"start", "wait"} /\ pc'[w] = "process" /\ ~storeFault)
          => TASKS' = RecoverTasks]_vars

\* C27: when the bring-up of a new container fails at its setup exec (a
\* non-zero exit code, or a failed inspection), GetOrCreateContainer
\* force-removes the new container, returns a non-nil error with no container
\* id (ExecuteTaskInDocker returns it and does not go on to the copy), and
\* leaves the recorded active container id empty.
C27_SetupFailureReturnsError ==
    [][\A w \in Workers :
          (BringUp(w) /\ activeContainerID'[w] # containerID[w])
          => /\ containerID[w] \notin containers'[w]
             /\ pc'[w] # "script"
             /\ containerID'[w] = NoContainer
             /\ activeContainerID'[w] = NoContainer]_vars

\* C28: every store error during claim, state update or recovery (failure to
\* begin the transaction, claim query error, code lookup error, update or
\* commit error, recovery error) increments database_failures.
C28_StoreErrorsCounted ==
    [][\A w \in Workers :
          \/ /\ storeFault
             /\ Start(w) \/ NotifyWake(w) \/ ClaimSelect(w) \/ ClaimCommit(w) \/ Finalize(w)
          \/ /\ ClaimCommit(w)
             /\ ~CodeFound(TASKS[task[w]].code)
          => workerstats'[w].DatabaseFailures = workerstats[w].DatabaseFailures + 1]_vars

\* C29: a pending task whose claim cycle always aborts before commit (its
\* code reference cannot be resolved) does not block the queue: a single
\* worker that stays alive, uncancelled and with a working store eventually
\* claims every other pending task, those of a higher priority value included.
C29_PoisonTaskDoesNotBlock ==
    \A t \in Tasks, w \in Workers :
        [](ProcessAlive(w) /\ ~ctxDone[w] /\ ~storeFault)
        => ((TASKS[t].status = TaskPending /\ CodeFound(TASKS[t].code))
            ~> (TASKS[t].status # TaskPending))

\* C30: in every reachable state (starting from rows with output and
\* last_error null), a completed task has output set and last_error null,
\* and a failed task has last_error non-null.
C30_TerminalRowsCarryResult ==
    \A t \in Tasks :
        /\ TASKS[t].status = TaskCompleted
           => TASKS[t].output # "null" /\ TASKS[t].last_error = "null"
        /\ TASKS[t].status = TaskFailed => TASKS[t].last_error # "null"

\* C31: a claim cycle that aborts before its transaction commits (the code
\* lookup, the UPDATE or the commit returns an error, or the worker is
\* killed) leaves the selected row exactly as it was: pending, locked_at and
\* worker_id null, its row lock released, and returned by the claim query of
\* every worker whose band admits its priority.
C31_AbortLeavesTaskClaimable ==
    [][\A w \in Workers, t \in Tasks :
          (/\ pc[w] = "tx"
           /\ task[w] = t
           /\ \/ pc'[w] = "crashed"
              \/ pc'[w] = "wait" /\ (storeFault \/ ~CodeFound(TASKS[t].code)))
          => /\ TASKS'[t] = TASKS[t]
             /\ TASKS'[t].status = TaskPending
             /\ TASKS'[t].locked_at = "null"
             /\ TASKS'[t].worker_id = NULL
             /\ rowLock'[t] = NULL
             /\ \A v \in Workers :
                   InBand(TASKS[t].priority, QueryArgs(v)[1], QueryArgs(v)[2])
                   => QueryMatches(t, QueryArgs(v)[1], QueryArgs(v)[2])' /\ SkipLocked(t)']_vars

\* A worker was killed between its claim query and its commit, and the row
\* it had selected is pending, unlocked and eligible for the other worker.
C31_Witness ==
    \E w \in Workers :
        /\ pc[w] = "crashed"
        /\ task[w] # NoTask
        /\ TASKS[task[w]].status = TaskPending
        /\ TASKS[task[w]].worker_id = NULL
        /\ rowLock[task[w]] = NULL
        /\ \E v \in Workers \ {w} : ProcessAlive(v) /\ task[w] \in Eligible(v)

\* C32: the idle reaper acts on a tick if and only if a container is recorded
\* and its last use is older than the idle timeout. A tick that acts clears
\* the recorded id and the removal that follows removes that container; the
\* reaper takes nothing while no container is recorded or the last use is
\* within the timeout; and whenever a container is recorded and idle, a tick
\* that gets the mutex acts.
C32_ReaperActsIffIdle ==
    [][\A w \in Workers :
          /\ (reaperID[w] = NoContainer /\ reaperID'[w] # NoContainer)
             => /\ activeContainerID[w] # NoContainer
                /\ lastUsedAt[w] = "idle"
                /\ reaperID'[w] = activeContainerID[w]
                /\ activeContainerID'[w] = NoContainer
          /\ (reaperID[w] # NoContainer /\ reaperID'[w] = NoContainer)
             => reaperID[w] \notin containers'[w]
          /\ (/\ ProcessAlive(w) /\ pc[w] # "bringup" /\ reaperID[w] = NoContainer
              /\ activeContainerID[w] # NoContainer /\ lastUsedAt[w] = "idle")
             => ENABLED ReaperTick(w)]_vars

\* The reaper has taken the id of an idle container and cleared the record;
\* the container is still there, its removal is the reaper's next step.
C32_Witness ==
    \E w \in Workers :
        /\ reaperID[w] # NoContainer
        /\ reaperID[w] \in containers[w]
        /\ activeContainerID[w] = NoContainer
        /\ lastUsedAt[w] = "idle"

\* C33: when execute is called and no container is recorded, or the recorded
\* one is no longer running, the call does not go to the script with the
\* recorded container: it forgets the id and either fails at the creation or
\* creates and starts a container that did not exist before and brings it
\* up; bring-up keeps that container or gives none; and a script that runs
\* runs in the container of its call, which is running.
C33_DeadContainerNeverReused ==
    [][\A w \in Workers :
          /\ (/\ pc[w] = "exec" /\ executeCalls'[w] = executeCalls[w] + 1
              /\ activeContainerID[w] = NoContainer \/ activeContainerID[w] \notin runningC[w])
             => /\ pc'[w] # "script"
                /\ pc'[w] = "bringup"
                   => /\ containerID'[w] \notin containers[w] \cup {activeContainerID[w], NoContainer}
                      /\ containerID'[w] \in runningC'[w]
                /\ pc'[w] # "bringup"
                   => ctxDone[w] \/ sandboxFault \/ created[w] >= MaxContainers
          /\ (pc[w] = "bringup" /\ pc'[w] \notin {"bringup", "crashed"})
             => containerID'[w] \in {containerID[w], NoContainer}
          /\ (/\ pc[w] = "script" /\ pc'[w] \notin {"script", "crashed"}
              /\ execResult'[w].output = "stdout")
             => containerID[w] \in runningC[w]]_vars

\* The worker is at the script in a running container while an earlier
\* container of its own is there, stopped: the execute call found the
\* recorded container dead and created another.
C33_Witness ==
    \E w \in Workers :
        /\ pc[w] = "script"
        /\ containerID[w] \in runningC[w]
        /\ \E c \in containers[w] \ runningC[w] : c # containerID[w]

\* C34: among the eligible pending rows of equal priority the claim query
\* selects the one inserted first, the row of lowest id.
C34_TiesByLowestId ==
    [][\A w \in Workers :
          (pc[w] = "process" /\ pc'[w] = "tx")
          => \A u \in Eligible(w) :
                TASKS[u].priority = TASKS[task'[w]].priority => task'[w] <= u]_vars

\* The execute call in flight has assigned lastUsedAt: it is past
\* GetOrCreateContainer with a container id, which the reuse branch and the
\* end of bring-up both return only after lastUsedAt = time.Now().
StampedInCall(w) == pc[w] = "script" /\ containerID[w] # NoContainer

\* C35: an execute call that returns because of cancellation has left
\* last_used_at as it was before the call: no step of the call has assigned
\* it, and the returning step does not change it.
C35_CancelledExecuteKeepsLastUsed ==
    [][\A w \in Workers :
          (/\ pc[w] \in {"exec", "bringup", "script"}
           /\ ctxDone[w]
           /\ pc'[w] \notin {"exec", "bringup", "script", "crashed"})
          => /\ ~StampedInCall(w)
             /\ lastUsedAt'[w] = lastUsedAt[w]]_vars

C37_StatsAccounting ==
    \A w \in Workers :
        LET s == workerstats[w] IN
        /\ s.TasksSuccessful + s.TasksFailed <= s.TasksProcessed
        /\ (pc[w] = "wait" /\ ~ctxDone[w])
           => /\ s.TasksProcessed = s.TasksSuccessful + s.TasksFailed
              /\ s.CurrentTask = NoTask

\* A worker that has not been cancelled is waiting after two cycles, one
\* that ended in success and one that ended in failure.
C37_Witness ==
    \E w \in Workers :
        /\ pc[w] = "wait"
        /\ ~ctxDone[w]
        /\ workerstats[w].TasksProcessed = 2
        /\ workerstats[w].TasksSuccessful = 1
        /\ workerstats[w].TasksFailed = 1
        /\ workerstats[w].CurrentTask = NoTask

\* Worker w is inside ProcessTasks: between a wake (or the initial check) and
\* the return to main's select.
InCycle(w) == pc[w] \in {"process", "tx", "exec", "bringup", "script", "backoff", "finalize"}

\* C38: every claim-and-process cycle ends, each call the worker makes
\* returning, and a cycle ends in one way only, whatever its outcome: the
\* worker is back in main's select waiting for the next wake (unless the
\* process was killed); no outcome of a task makes the loop exit.
C38_CycleEndsBackInWait ==
    /\ \A w \in Workers : InCycle(w) ~> (pc[w] \in {"wait", "crashed"})
    /\ [][\A w \in Workers :
             /\ (InCycle(w) /\ ~InCycle(w)') => pc'[w] \in {"wait", "crashed"}
             /\ (pc[w] = "wait" /\ pc'[w] = "exited") => ctxDone[w]]_vars

\* A worker that has not been cancelled is back waiting after a cycle that
\* failed its task with the retries exhausted and after a cycle stopped by a
\* store error.
C38_Witness ==
    \E w \in Workers :
        /\ pc[w] = "wait"
        /\ ~ctxDone[w]
        /\ storeFault
        /\ workerstats[w].TasksFailed >= 1
        /\ workerstats[w].DatabaseFailures >= 1

====
